---- MODULE Spec2Model ----
(***************************************************************************)
(* Model of supersenseFeatureExtractor.py: the Trie, the feature alphabet  *)
(* (SequentialStringIndexer), the per-instance feature map                 *)
(* (IndexedStringSet / IndexedFeatureMap), the most-frequent-sense         *)
(* baseline and the POS-neighbour distance bucketing.                      *)
(***************************************************************************)
EXTENDS Integers, Sequences, FiniteSets, TLC

VARIABLES
    \* ---- Trie under test (class Trie) ----
    trie,        \* the root Trie: [map |-> item -> Trie, vals |-> item -> value]
    stored,      \* log of the inserts: key -> value of the most recent insert
    tq,          \* the last Trie call and what it returned
    \* ---- feature alphabet (class SequentialStringIndexer) ----
    ix,          \* the indexer: [s2i, i2s, frozen, cutoff, counts, len]
    tally,       \* log of the calls: index -> add/setdefault calls since the
                 \* last setcount, plus the count that setcount forced
    sret,        \* the last indexer or feature-map call and how it ended
    \* ---- one instance's features (class IndexedFeatureMap) ----
    fv,          \* the feature map: [indices, map, default]
    \* ---- most-frequent-sense baseline ----
    nounFile,    \* the lines of the noun sense file: [phrase, sense]
    verbFile,    \* the lines of the verb sense file: [phrase, sense]
    senseTrie,   \* the global senseTrie after loadSenseDataOriginalFormat
    sent,        \* the sentence: a sequence of tokens [stem, pos]
    sq,          \* the last baseline call and what it returned
    \* ---- POS-neighbour features of extractFeatureValues ----
    psent,       \* the sentence: a sequence of tokens [stem, pos]
    pj,          \* j, the position (from 0) of the token being described
    pq           \* the last call and the feature names it set

trieVars == <<trie, stored, tq>>

indexerVars == <<ix, tally, sret>>

featureVars == <<fv>>

senseVars == <<nounFile, verbFile, senseTrie, sent, sq>>

posVars == <<psent, pj, pq>>

vars == <<trie, stored, tq, ix, tally, sret, fv,
          nounFile, verbFile, senseTrie, sent, sq, psent, pj, pq>>

----------------------------------------------------------------------------
(* Python values that appear as results.                                   *)

PyNone  == [tag |-> "None"]
PyFalse == [tag |-> "False"]
PyTrue  == [tag |-> "True"]
PyBool(b) == IF b THEN PyTrue ELSE PyFalse
PyStr(s)  == [tag |-> "str", s |-> s]
PyInt(n)  == [tag |-> "int", n |-> n]
\* the 2-tuple (prefix, value) returned by Trie.longest
PyPair(p, v) == [tag |-> "pair", prefix |-> p, val |-> v]

EmptyFn == [k \in {} |-> 0]

----------------------------------------------------------------------------
(* Bounds and input alphabets of the Trie model.                           *)

MaxKeyLen == 2      \* longest key inserted; lookups go one item further
MaxKeys   == 2      \* distinct keys held by the trie under test

Items     == {"a", "b"}
TrieVals  == {PyStr("X"), PyStr("Y")}
Defaults  == {PyNone, PyFalse}

RECURSIVE SeqsOfLen(_, _)
SeqsOfLen(S, n) ==
    IF n = 0 THEN {<<>>}
    ELSE {<<x>> \o s : x \in S, s \in SeqsOfLen(S, n - 1)}

\* the non-empty sequences over S of length at most n
NonEmptySeqs(S, n) == UNION {SeqsOfLen(S, k) : k \in 1..n}

KeySeqs == NonEmptySeqs(Items, MaxKeyLen)
QuerySeqs == NonEmptySeqs(Items, MaxKeyLen + 1)

IsPrefix(p, s) == Len(p) <= Len(s) /\ SubSeq(s, 1, Len(p)) = p
IsStrictPrefix(p, s) == IsPrefix(p, s) /\ Len(p) < Len(s)

----------------------------------------------------------------------------
(* class Trie                                                              *)

\* Trie.__init__
NewTrie == [map |-> EmptyFn, vals |-> EmptyFn]

\* Trie.__setitem__ with the value also attached to every item on the way
RECURSIVE Trie_setitem_everyNode(_, _, _)
Trie_setitem_everyNode(t, seq, v) ==
    LET first == Head(seq)
        rest  == Tail(seq)
    IN  IF rest # <<>>
        THEN LET child == IF first \in DOMAIN t.map THEN t.map[first] ELSE NewTrie
             IN  [t EXCEPT !.map = (first :> Trie_setitem_everyNode(child, rest, v)) @@ t.map,
                           !.vals = (first :> v) @@ t.vals]
        ELSE [t EXCEPT !.vals = (first :> v) @@ t.vals]

\* Trie.__setitem__: the trie after self[seq] = v
RECURSIVE Trie_setitem(_, _, _)
Trie_setitem(t, seq, v) ==
    LET first == Head(seq)
        rest  == Tail(seq)
    IN  IF rest # <<>>
        THEN LET child == IF first \in DOMAIN t.map THEN t.map[first] ELSE NewTrie
             IN  [t EXCEPT !.map = (first :> Trie_setitem(child, rest, v)) @@ t.map]
        ELSE [t EXCEPT !.vals = (first :> v) @@ t.vals]

\* Trie.__contains__
RECURSIVE Trie_contains(_, _)
Trie_contains(t, seq) ==
    LET first == Head(seq)
        rest  == Tail(seq)
    IN  IF rest # <<>>
        THEN IF first \notin DOMAIN t.map
             THEN FALSE
             ELSE Trie_contains(t.map[first], rest)
        ELSE first \in DOMAIN t.vals

\* Trie.get: the recursive call does not pass 'default' on, so it runs
\* with the parameter's default value None
RECURSIVE Trie_get(_, _, _)
Trie_get(t, seq, default) ==
    LET first == Head(seq)
        rest  == Tail(seq)
    IN  IF rest # <<>>
        THEN IF first \notin DOMAIN t.map
             THEN default
             ELSE Trie_get(t.map[first], rest, PyNone)
        ELSE IF first \in DOMAIN t.vals THEN t.vals[first] ELSE default

\* Trie.longest that stops at the first item carrying a value
RECURSIVE Trie_longest_shortest(_, _, _)
Trie_longest_shortest(t, seq, default) ==
    LET first  == Head(seq)
        rest   == Tail(seq)
        longer == IF rest # <<>> /\ first \in DOMAIN t.map
                  THEN Trie_longest_shortest(t.map[first], rest, default)
                  ELSE default
    IN  IF first \in DOMAIN t.vals
        THEN PyPair(<<first>>, t.vals[first])
        ELSE IF longer = default
             THEN default
             ELSE PyPair(<<first>> \o longer.prefix, longer.val)

\* Trie.longest
RECURSIVE Trie_longest(_, _, _)
Trie_longest(t, seq, default) ==
    LET first  == Head(seq)
        rest   == Tail(seq)
        longer == IF rest # <<>> /\ first \in DOMAIN t.map
                  THEN Trie_longest(t.map[first], rest, default)
                  ELSE default
    IN  IF longer = default
        THEN IF first \in DOMAIN t.vals
             THEN PyPair(<<first>>, t.vals[first])
             ELSE default
        ELSE PyPair(<<first>> \o longer.prefix, longer.val)

----------------------------------------------------------------------------
(* Operations on the Trie under test.                                      *)

NoCall == [op |-> "none"]

\* a run builds the trie, as the loader does, and then makes one lookup:
\* the lookups leave the trie as it is, so every trie is met with every
\* lookup
TrieBuilding == tq.op \in {"none", "setitem"}


\* t[seq] = v
TrieSetItem ==
    \E seq \in KeySeqs, v \in TrieVals :
        /\ TrieBuilding
        /\ seq \in DOMAIN stored \/ Cardinality(DOMAIN stored) < MaxKeys
        /\ trie' = Trie_setitem(trie, seq, v)
        /\ stored' = (seq :> v) @@ stored
        /\ tq' = [op |-> "setitem", replaced |-> seq \in DOMAIN stored]
        /\ UNCHANGED <<indexerVars, featureVars, senseVars, posVars>>

\* seq in t
TrieContains ==
    \E seq \in QuerySeqs :
        /\ TrieBuilding
        /\ tq' = [op |-> "contains", seq |-> seq, default |-> PyNone,
                  result |-> PyBool(Trie_contains(trie, seq))]
        /\ UNCHANGED <<trie, stored, indexerVars, featureVars, senseVars, posVars>>

\* t.get(seq, default); t.get(seq) is the call with default None
TrieGet ==
    \E seq \in QuerySeqs, default \in Defaults :
        /\ TrieBuilding
        /\ tq' = [op |-> "get", seq |-> seq, default |-> default,
                  result |-> Trie_get(trie, seq, default)]
        /\ UNCHANGED <<trie, stored, indexerVars, featureVars, senseVars, posVars>>

\* t.longest(seq, default); t.longest(seq) is the call with default None
TrieLongest ==
    \E seq \in QuerySeqs, default \in Defaults :
        /\ TrieBuilding
        /\ tq' = [op |-> "longest", seq |-> seq, default |-> default,
                  result |-> Trie_longest(trie, seq, default)]
        /\ UNCHANGED <<trie, stored, indexerVars, featureVars, senseVars, posVars>>

TrieNext ==
    \/ TrieSetItem
    \/ TrieContains
    \/ TrieGet
    \/ TrieLongest

----------------------------------------------------------------------------
(* Claims about the Trie.                                                  *)

\* C1: after any sequence of inserts, every inserted key is contained and
\* get(key) is the value of the most recent insert under it; every other
\* non-empty key (a strict prefix of an inserted key included) is not
\* contained and get(key) is None.  Every key is looked up in each trie as
\* it is built (a lookup leaves the trie as it was); the one recorded lookup
\* is compared with the log of inserts as well.
C1_TrieExactness ==
    /\ TrieBuilding => \A key \in QuerySeqs :
          IF key \in DOMAIN stored
          THEN /\ Trie_contains(trie, key)
               /\ Trie_get(trie, key, PyNone) = stored[key]
          ELSE /\ ~Trie_contains(trie, key)
               /\ Trie_get(trie, key, PyNone) = PyNone
    /\ tq.op = "contains" =>
          tq.result = PyBool(tq.seq \in DOMAIN stored)
    /\ (tq.op = "get" /\ tq.default = PyNone) =>
          tq.result = IF tq.seq \in DOMAIN stored
                      THEN stored[tq.seq] ELSE PyNone

\* a key has just been re-inserted, and an inserted key has a strict prefix
\* that was never inserted
C1_Witness ==
    /\ tq.op = "setitem"
    /\ tq.replaced
    /\ \E k \in DOMAIN stored, p \in KeySeqs :
          /\ IsStrictPrefix(p, k)
          /\ p \notin DOMAIN stored
          /\ ~Trie_contains(trie, p)
          /\ Trie_get(trie, k, PyNone) = stored[k]

\* the inserted keys that are prefixes of s
InsertedPrefixes(s) == {k \in DOMAIN stored : IsPrefix(k, s)}

\* what longest(s, default) has to return, read off the log of inserts
LongestExpected(s, default) ==
    IF InsertedPrefixes(s) = {}
    THEN default
    ELSE LET P == CHOOSE k \in InsertedPrefixes(s) :
                      \A o \in InsertedPrefixes(s) : Len(o) <= Len(k)
         IN  PyPair(P, stored[P])

\* C2: longest(S, default) is the pair of the longest inserted prefix of S
\* and that key's current value, and is the default exactly when no
\* non-empty prefix of S was ever inserted.
C2_LongestPrefix ==
    /\ TrieBuilding => \A s \in QuerySeqs, d \in Defaults :
          /\ Trie_longest(trie, s, d) = LongestExpected(s, d)
          /\ (Trie_longest(trie, s, d) = d) <=> (InsertedPrefixes(s) = {})
    /\ tq.op = "longest" =>
          tq.result = LongestExpected(tq.seq, tq.default)

\* K1 a strict prefix of K2, K2 a strict prefix of S, both inserted with
\* different values, and longest(S) has returned K2 with its value
C2_Witness ==
    /\ tq.op = "longest"
    /\ \E K1 \in DOMAIN stored, K2 \in DOMAIN stored :
          /\ IsStrictPrefix(K1, K2)
          /\ IsStrictPrefix(K2, tq.seq)
          /\ tq.result = PyPair(K2, stored[K2])
          /\ stored[K1] # stored[K2]

\* C12: get(seq, default) returns the caller's default for every non-empty
\* seq that has no stored value, whatever its length, also when the first
\* items of seq lead into child nodes made by the inserted keys.
C12_GetDefault ==
    (tq.op = "get" /\ tq.seq \notin DOMAIN stored) =>
        tq.result = tq.default

----------------------------------------------------------------------------
(* class SequentialStringIndexer                                           *)

MaxCount  == 2      \* largest count a symbol accumulates or is forced to
MaxCutoff == 2      \* largest cutoff threshold an indexer is built with

Symbols == {"a", "b", "c"}
Cutoffs == {PyNone} \cup {PyInt(c) : c \in 1..MaxCutoff}
\* the integers setcount is called with as a raw index
RawIndices == 0..(Cardinality(Symbols) - 1)

\* an attribute that does not exist (never assigned, or deleted with del)
NoAttr == [exists |-> FALSE]
Attr(v) == [exists |-> TRUE, c |-> v]

\* SequentialStringIndexer.__init__(cutoff)
NewIndexer(cutoff) ==
    [s2i    |-> EmptyFn,
     i2s    |-> <<>>,
     frozen |-> FALSE,
     cutoff |-> cutoff,
     counts |-> IF cutoff # PyNone THEN Attr(EmptyFn) ELSE NoAttr,
     len    |-> NoAttr]

\* how a call ends: the indexer it leaves, the exception it raised ("none"
\* when it returned) and the value it returned
Outcome(x, raised, result) == [ix |-> x, raised |-> raised, result |-> result]

\* collections.Counter.__getitem__: a missing key counts 0
CounterGet(c, i) == IF i \in DOMAIN c THEN c[i] ELSE 0

\* SequentialStringIndexer.__contains__ for a string k
Indexer_contains(x, k) == k \in DOMAIN x.s2i

\* SequentialStringIndexer.is_frozen
Indexer_is_frozen(x) == x.frozen

\* SequentialStringIndexer.__getitem__ for a string k
Indexer_getitem(x, k) ==
    IF k \in DOMAIN x.s2i
    THEN Outcome(x, "none", PyInt(x.s2i[k]))
    ELSE Outcome(x, "KeyError", PyNone)

\* list.__getitem__ of self._i2s for an integer k: Python counts a negative
\* index from the end of the list and raises IndexError outside -len..len-1
ListGet(x, k) ==
    LET n == Len(x.i2s)
    IN  IF k >= 0 /\ k < n
        THEN Outcome(x, "none", PyStr(x.i2s[k + 1]))
        ELSE IF k < 0 /\ k >= 0 - n
             THEN Outcome(x, "none", PyStr(x.i2s[n + k + 1]))
             ELSE Outcome(x, "IndexError", PyNone)

\* SequentialStringIndexer.__getitem__; k is a string or an integer
Indexer_index(x, k) ==
    IF k.tag = "int" THEN ListGet(x, k.n) ELSE Indexer_getitem(x, k.s)

\* SequentialStringIndexer.get; k is a string or an integer
Indexer_get(x, k, default) ==
    IF k.tag = "int"
    THEN IF k.n >= Len(x.i2s)
         THEN Outcome(x, "none", default)
         ELSE ListGet(x, k.n)
    ELSE IF k.s \in DOMAIN x.s2i
         THEN Outcome(x, "none", PyInt(x.s2i[k.s]))
         ELSE Outcome(x, "none", default)

\* lines 215-217 of add: the count update that ends every call
Indexer_updateCount(x, i) ==
    IF ~Indexer_is_frozen(x) /\ x.cutoff # PyNone
    THEN IF x.counts.exists
         THEN Outcome([x EXCEPT !.counts.c = (i :> (CounterGet(@, i) + 1)) @@ @],
                      "none", PyNone)
         ELSE Outcome(x, "AttributeError", PyNone)
    ELSE Outcome(x, "none", PyNone)

\* add numbering the entries from 1
Indexer_add_fromOne(x, s) ==
    IF ~Indexer_contains(x, s)
    THEN IF Indexer_is_frozen(x)
         THEN Outcome(x, "ValueError", PyNone)
         ELSE LET i == Len(x.i2s) + 1
              IN  Indexer_updateCount(
                      [x EXCEPT !.s2i = (s :> i) @@ @, !.i2s = Append(@, s)], i)
    ELSE Indexer_updateCount(x, x.s2i[s])

\* add registering the string before it looks at the frozen flag
Indexer_add_lateCheck(x, s) ==
    IF ~Indexer_contains(x, s)
    THEN LET i  == Len(x.i2s)
             x1 == [x EXCEPT !.s2i = (s :> i) @@ @, !.i2s = Append(@, s)]
         IN  IF Indexer_is_frozen(x)
             THEN Outcome(x1, "ValueError", PyNone)
             ELSE Indexer_updateCount(x1, i)
    ELSE Indexer_updateCount(x, x.s2i[s])

\* SequentialStringIndexer.add
Indexer_add(x, s) ==
    IF ~Indexer_contains(x, s)
    THEN IF Indexer_is_frozen(x)
         THEN Outcome(x, "ValueError", PyNone)
         ELSE LET i == Len(x.i2s)
              IN  Indexer_updateCount(
                      [x EXCEPT !.s2i = (s :> i) @@ @, !.i2s = Append(@, s)], i)
    ELSE Indexer_updateCount(x, x.s2i[s])

\* SequentialStringIndexer.setdefault
Indexer_setdefault(x, k) ==
    LET added == Indexer_add(x, k)
    IN  IF added.raised # "none" THEN added
        ELSE Indexer_getitem(added.ix, k)

\* SequentialStringIndexer.setcount; k is a string or an integer
Indexer_setcount(x, k, n) ==
    IF k.tag = "str" /\ k.s \notin DOMAIN x.s2i
    THEN Outcome(x, "KeyError", PyNone)
    ELSE LET i == IF k.tag = "int" THEN k.n ELSE x.s2i[k.s]
         IN  IF x.counts.exists
             THEN Outcome([x EXCEPT !.counts.c = (i :> n) @@ @], "none", PyNone)
             ELSE Outcome(x, "AttributeError", PyNone)

\* the list comprehension of freeze keeping only counts above the cutoff
RECURSIVE Indexer_filter_above(_, _, _, _)
Indexer_filter_above(i2s, counts, cutoff, i) ==
    IF i >= Len(i2s) THEN <<>>
    ELSE (IF CounterGet(counts, i) > cutoff THEN <<i2s[i + 1]>> ELSE <<>>)
         \o Indexer_filter_above(i2s, counts, cutoff, i + 1)

\* the list comprehension of freeze: the strings whose count reaches the cutoff
RECURSIVE Indexer_filter(_, _, _, _)
Indexer_filter(i2s, counts, cutoff, i) ==
    IF i >= Len(i2s) THEN <<>>
    ELSE (IF CounterGet(counts, i) >= cutoff THEN <<i2s[i + 1]>> ELSE <<>>)
         \o Indexer_filter(i2s, counts, cutoff, i + 1)

\* {s: i for i,s in enumerate(i2s)}
Indexer_enumerate(i2s) ==
    [s \in {i2s[j] : j \in 1..Len(i2s)} |->
        (CHOOSE j \in 1..Len(i2s) :
            i2s[j] = s /\ \A h \in (j + 1)..Len(i2s) : i2s[h] # s) - 1]

\* SequentialStringIndexer.freeze
Indexer_freeze(x) ==
    IF x.cutoff # PyNone
    THEN IF ~x.counts.exists
         THEN Outcome(x, "AttributeError", PyNone)
         ELSE LET kept == Indexer_filter(x.i2s, x.counts.c, x.cutoff.n, 0)
              IN  Outcome([x EXCEPT !.i2s = kept,
                                    !.counts = NoAttr,
                                    !.s2i = Indexer_enumerate(kept),
                                    !.frozen = TRUE,
                                    !.len = Attr(Len(kept))],
                          "none", PyNone)
    ELSE Outcome([x EXCEPT !.frozen = TRUE, !.len = Attr(Len(x.i2s))],
                 "none", PyNone)

\* SequentialStringIndexer.unfreeze
Indexer_unfreeze(x) == Outcome([x EXCEPT !.frozen = FALSE], "none", PyNone)

----------------------------------------------------------------------------
(* Operations on the indexer.                                              *)

Call(op, arg, out) ==
    [op |-> op, arg |-> arg, raised |-> out.raised, result |-> out.result]

\* the count the stored entry of index i would have after one more call
CountAfterAdd(x, s) ==
    LET i == IF s \in DOMAIN x.s2i THEN x.s2i[s] ELSE Len(x.i2s)
    IN  IF x.counts.exists THEN CounterGet(x.counts.c, i) + 1 ELSE 0

\* the log of the calls follows an add/setdefault of s
TallyAdd(x, s) ==
    LET i == IF s \in DOMAIN x.s2i THEN x.s2i[s] ELSE Len(x.i2s)
    IN  IF x.cutoff # PyNone /\ x.counts.exists /\ ~x.frozen
        THEN (i :> (CounterGet(tally, i) + 1)) @@ tally
        ELSE tally


\* indexer.add(s)
IndexerAdd ==
    \E s \in Symbols :
        LET out == Indexer_add(ix, s)
        IN  /\ CountAfterAdd(ix, s) <= MaxCount
            /\ ix' = out.ix
            /\ tally' = TallyAdd(ix, s)
            /\ sret' = Call("add", PyStr(s), out)
            /\ UNCHANGED <<trieVars, featureVars, senseVars, posVars>>

\* indexer.setdefault(k)
IndexerSetDefault ==
    \E k \in Symbols :
        LET out == Indexer_setdefault(ix, k)
        IN  /\ CountAfterAdd(ix, k) <= MaxCount
            /\ ix' = out.ix
            /\ tally' = TallyAdd(ix, k)
            /\ sret' = Call("setdefault", PyStr(k), out)
            /\ UNCHANGED <<trieVars, featureVars, senseVars, posVars>>

\* indexer.setcount(k, n)
IndexerSetCount ==
    \E k \in {PyStr(s) : s \in Symbols} \cup {PyInt(i) : i \in RawIndices},
       n \in 0..MaxCount :
        LET out == Indexer_setcount(ix, k, n)
        IN  /\ ix' = out.ix
            /\ tally' = IF out.raised = "none"
                        THEN ((IF k.tag = "int" THEN k.n ELSE ix.s2i[k.s]) :> n) @@ tally
                        ELSE tally
            /\ sret' = Call("setcount", k, out)
            /\ UNCHANGED <<trieVars, featureVars, senseVars, posVars>>

\* indexer.freeze()
IndexerFreeze ==
    LET out == Indexer_freeze(ix)
    IN  /\ ix' = out.ix
        /\ tally' = IF out.raised = "none" THEN EmptyFn ELSE tally
        /\ sret' = [Call("freeze", PyNone, out) EXCEPT !.arg = ix.i2s]
        /\ UNCHANGED <<trieVars, featureVars, senseVars, posVars>>

\* indexer.unfreeze()
IndexerUnfreeze ==
    LET out == Indexer_unfreeze(ix)
    IN  /\ ix' = out.ix
        /\ sret' = Call("unfreeze", PyNone, out)
        /\ UNCHANGED <<tally, trieVars, featureVars, senseVars, posVars>>

\* the keys a lookup is made with: every symbol, and the integers from one
\* below the most negative index of a full table to one above its last index
LookupInts == (0 - Cardinality(Symbols) - 1)..Cardinality(Symbols)
LookupKeys == {PyStr(s) : s \in Symbols} \cup {PyInt(i) : i \in LookupInts}

\* indexer.get(k, default); indexer.get(k) is the call with default None
IndexerGet ==
    \E k \in LookupKeys, default \in Defaults :
        LET out == Indexer_get(ix, k, default)
        IN  /\ ix' = out.ix
            /\ sret' = Call("get", [k |-> k, default |-> default], out)
            /\ UNCHANGED <<tally, trieVars, featureVars, senseVars, posVars>>

\* indexer[k]
IndexerGetItem ==
    \E k \in LookupKeys :
        LET out == Indexer_index(ix, k)
        IN  /\ ix' = out.ix
            /\ sret' = Call("getitem", [k |-> k, default |-> PyNone], out)
            /\ UNCHANGED <<tally, trieVars, featureVars, senseVars, posVars>>

\* a table is filled, frozen, reopened and looked up
LookupNext ==
    \/ IndexerAdd
    \/ IndexerFreeze
    \/ IndexerUnfreeze
    \/ IndexerGet
    \/ IndexerGetItem

IndexerNext ==
    \/ IndexerAdd
    \/ IndexerSetDefault
    \/ IndexerSetCount
    \/ IndexerFreeze
    \/ IndexerUnfreeze

----------------------------------------------------------------------------
(* class IndexedStringSet, class IndexedFeatureMap                         *)

\* the values a feature is set to, the default among them
FeatVals == {1, 2}

\* IndexedFeatureMap.__init__(indexer, default): an empty IndexedStringSet
\* and an empty override map
NewFeatureMap(default) ==
    [indices |-> {}, map |-> EmptyFn, default |-> default]

\* how a call on the feature map ends: the map and the indexer it leaves
FOutcome(f, x, raised, result) ==
    [fv |-> f, ix |-> x, raised |-> raised, result |-> result]

\* IndexedStringSet.add for a string k
StringSet_add(f, x, k) ==
    LET got == Indexer_setdefault(x, k)
    IN  IF got.raised # "none"
        THEN FOutcome(f, got.ix, got.raised, PyNone)
        ELSE FOutcome([f EXCEPT !.indices = @ \cup {got.result.n}],
                      got.ix, "none", PyNone)

\* IndexedStringSet.setdefault
StringSet_setdefault(f, x, k) ==
    LET added == StringSet_add(f, x, k)
    IN  IF added.raised # "none" THEN added
        ELSE LET got == Indexer_getitem(added.ix, k)
             IN  FOutcome(added.fv, got.ix, got.raised, got.result)

\* IndexedFeatureMap.__setitem__ without the test of the frozen flag
FeatureMap_setitem_unguarded(f, x, k, v) ==
    LET got == StringSet_setdefault(f, x, k)
    IN  IF got.raised # "none" THEN got
        ELSE IF v # f.default
             THEN FOutcome([got.fv EXCEPT !.map = (got.result.n :> v) @@ @],
                           got.ix, "none", PyNone)
             ELSE FOutcome(got.fv, got.ix, "none", PyNone)

\* IndexedFeatureMap.__setitem__
FeatureMap_setitem(f, x, k, v) ==
    IF ~Indexer_is_frozen(x) \/ Indexer_contains(x, k)
    THEN LET got == StringSet_setdefault(f, x, k)
         IN  IF got.raised # "none" THEN got
             ELSE IF v # f.default
                  THEN FOutcome([got.fv EXCEPT !.map = (got.result.n :> v) @@ @],
                                got.ix, "none", PyNone)
                  ELSE FOutcome(got.fv, got.ix, "none", PyNone)
    ELSE FOutcome(f, x, "none", PyNone)

\* IndexedFeatureMap.items: the (index, value) pairs the iteration yields
FeatureMap_items(f) ==
    {<<i, IF i \in DOMAIN f.map THEN f.map[i] ELSE f.default>> : i \in f.indices}

----------------------------------------------------------------------------
(* Operations on the feature map.                                          *)


\* featureMap[k] = v
FeatureMapSet ==
    \E k \in Symbols, v \in FeatVals :
        LET called == ~Indexer_is_frozen(ix) \/ Indexer_contains(ix, k)
            out    == FeatureMap_setitem(fv, ix, k, v)
        IN  /\ called => CountAfterAdd(ix, k) <= MaxCount
            /\ fv' = out.fv
            /\ ix' = out.ix
            /\ tally' = IF called THEN TallyAdd(ix, k) ELSE tally
            /\ sret' = [op |-> "set", arg |-> [k |-> k, v |-> v],
                        raised |-> out.raised, result |-> out.result]
            /\ UNCHANGED <<trieVars, senseVars, posVars>>

FeatureMapNext ==
    \/ FeatureMapSet
    \/ IndexerFreeze
    \/ IndexerUnfreeze

----------------------------------------------------------------------------
(* Most-frequent-sense baseline: loadSenseDataOriginalFormat,              *)
(* getMostFrequentSensePrefix, extractFirstSensePredictedLabels            *)

MaxSentLen  == 3    \* tokens in a sentence; a phrase is shorter by one
MaxLexLines == 2    \* lines in the two sense files together

Stems      == {"go", "out"}
SentPOS    == {"NN", "VB"}
NounSenses == {"noun.artifact"}
VerbSenses == {"verb.motion"}

\* tok.pos[0]
PosFirstChar(pos) ==
    CASE pos = "NN" -> "N"
      [] pos = "VB" -> "V"

Phrases   == NonEmptySeqs(Stems, MaxSentLen - 1)
Sentences == NonEmptySeqs([stem : Stems, pos : SentPOS], MaxSentLen)

\* a sense file: lines with distinct phrases
SenseFiles(senses) ==
    {f \in SUBSET [phrase : Phrases, sense : senses] :
        /\ Cardinality(f) <= MaxLexLines
        /\ \A l1 \in f, l2 \in f : l1.phrase = l2.phrase => l1 = l2}

\* _addMostFrequentSense: the senseTrie it leaves
addMostFrequentSense(t, phrase, simplePOS, sense) ==
    IF ~Trie_contains(t, phrase)
    THEN Trie_setitem(t, phrase, (simplePOS :> sense))
    ELSE Trie_setitem(t, phrase,
                      (simplePOS :> sense) @@ Trie_get(t, phrase, PyNone))

\* _loadSenseFileOriginalFormat: one _addMostFrequentSense per line
RECURSIVE loadSenseFileOriginalFormat(_, _, _)
loadSenseFileOriginalFormat(t, lines, shortPOS) ==
    IF lines = {} THEN t
    ELSE LET ln == CHOOSE l \in lines : TRUE
         IN  loadSenseFileOriginalFormat(
                 addMostFrequentSense(t, ln.phrase, shortPOS, ln.sense),
                 lines \ {ln}, shortPOS)

\* loadSenseDataOriginalFormat: the noun file, then the verb file
loadSenseDataOriginalFormat(nouns, verbs) ==
    loadSenseFileOriginalFormat(
        loadSenseFileOriginalFormat(NewTrie, nouns, "N"), verbs, "V")

\* getMostFrequentSensePrefix with the last token's POS tried first
RECURSIVE getMostFrequentSensePrefix_lastFirst(_, _, _)
getMostFrequentSensePrefix_lastFirst(t, stems, coarse_poses) ==
    LET found == Trie_longest(t, stems, PyNone)
    IN  IF found # PyNone
        THEN LET prefix    == found.prefix
                 pos2sense == found.val
                 n         == Len(prefix) - 1
             IN  IF coarse_poses[Len(coarse_poses)] \in DOMAIN pos2sense
                 THEN [ret   |-> PyPair(prefix, pos2sense[coarse_poses[Len(coarse_poses)]]),
                       calls |-> <<Len(stems)>>]
                 ELSE IF coarse_poses[1] \in DOMAIN pos2sense
                 THEN [ret   |-> PyPair(prefix, pos2sense[coarse_poses[1]]),
                       calls |-> <<Len(stems)>>]
                 ELSE IF n > 0
                 THEN LET again == getMostFrequentSensePrefix_lastFirst(
                                       t, SubSeq(stems, 1, n),
                                       SubSeq(coarse_poses, 1, n))
                      IN  [ret |-> again.ret, calls |-> <<Len(stems)>> \o again.calls]
                 ELSE [ret |-> PyNone, calls |-> <<Len(stems)>>]
        ELSE [ret |-> PyNone, calls |-> <<Len(stems)>>]

\* getMostFrequentSensePrefix: ret is what it returns, calls the length of
\* 'stems' in each of its nested invocations
RECURSIVE getMostFrequentSensePrefix(_, _, _)
getMostFrequentSensePrefix(t, stems, coarse_poses) ==
    LET found == Trie_longest(t, stems, PyNone)
    IN  IF found # PyNone
        THEN LET prefix    == found.prefix
                 pos2sense == found.val
                 n         == Len(prefix) - 1
             IN  IF coarse_poses[1] \in DOMAIN pos2sense
                 THEN [ret   |-> PyPair(prefix, pos2sense[coarse_poses[1]]),
                       calls |-> <<Len(stems)>>]
                 ELSE IF coarse_poses[Len(coarse_poses)] \in DOMAIN pos2sense
                 THEN [ret   |-> PyPair(prefix, pos2sense[coarse_poses[Len(coarse_poses)]]),
                       calls |-> <<Len(stems)>>]
                 ELSE IF n > 0
                 THEN LET again == getMostFrequentSensePrefix(
                                       t, SubSeq(stems, 1, n),
                                       SubSeq(coarse_poses, 1, n))
                      IN  [ret |-> again.ret, calls |-> <<Len(stems)>> \o again.calls]
                 ELSE [ret |-> PyNone, calls |-> <<Len(stems)>>]
        ELSE [ret |-> PyNone, calls |-> <<Len(stems)>>]

\* the labels: 'O', 'B-'+sense, 'I-'+sense
LabelO == [bio |-> "O"]
LabelB(sense) == [bio |-> "B", sense |-> sense]
LabelI(sense) == [bio |-> "I", sense |-> sense]

\* the while loop of extractFirstSensePredictedLabels that labels only the
\* first token of a matched span
RECURSIVE ExtractLoop_headOnly(_, _, _, _, _)
ExtractLoop_headOnly(t, stems, coarse_poses, i, res) ==
    IF i < Len(stems)
    THEN LET r == getMostFrequentSensePrefix(
                      t, SubSeq(stems, i + 1, Len(stems)),
                      SubSeq(coarse_poses, i + 1, Len(stems))).ret
         IN  IF r # PyNone
             THEN ExtractLoop_headOnly(t, stems, coarse_poses, i + 1,
                                       Append(res, LabelB(r.val)))
             ELSE ExtractLoop_headOnly(t, stems, coarse_poses, i + 1,
                                       Append(res, LabelO))
    ELSE res

\* the while loop of extractFirstSensePredictedLabels, from position i with
\* the labels res so far
RECURSIVE ExtractLoop(_, _, _, _, _)
ExtractLoop(t, stems, coarse_poses, i, res) ==
    IF i < Len(stems)
    THEN LET r == getMostFrequentSensePrefix(
                      t, SubSeq(stems, i + 1, Len(stems)),
                      SubSeq(coarse_poses, i + 1, Len(stems))).ret
         IN  IF r # PyNone
             THEN ExtractLoop(t, stems, coarse_poses, i + Len(r.prefix),
                              res \o <<LabelB(r.val)>>
                                  \o [w \in 1..(Len(r.prefix) - 1) |-> LabelI(r.val)])
             ELSE ExtractLoop(t, stems, coarse_poses, i + 1, Append(res, LabelO))
    ELSE res

\* extractFirstSensePredictedLabels
extractFirstSensePredictedLabels(t, sentence) ==
    ExtractLoop(t,
                [k \in 1..Len(sentence) |-> sentence[k].stem],
                [k \in 1..Len(sentence) |-> PosFirstChar(sentence[k].pos)],
                0, <<>>)

----------------------------------------------------------------------------
(* Operations of the baseline.                                             *)


\* extractFirstSensePredictedLabels(sent)
ExtractFirstSense ==
    /\ sq.op = "none"
    /\ sq' = [op |-> "extract",
              result |-> extractFirstSensePredictedLabels(senseTrie, sent)]
    /\ UNCHANGED <<nounFile, verbFile, senseTrie, sent,
                   trieVars, indexerVars, featureVars, posVars>>

\* getMostFrequentSensePrefix(stems, coarse_poses) on the whole sentence
SensePrefix ==
    /\ sq.op = "none"
    /\ LET out == getMostFrequentSensePrefix(
                      senseTrie,
                      [k \in 1..Len(sent) |-> sent[k].stem],
                      [k \in 1..Len(sent) |-> PosFirstChar(sent[k].pos)])
       IN  sq' = [op |-> "prefix", result |-> out.ret, calls |-> out.calls]
    /\ UNCHANGED <<nounFile, verbFile, senseTrie, sent,
                   trieVars, indexerVars, featureVars, posVars>>

SenseNext ==
    \/ ExtractFirstSense
    \/ SensePrefix

----------------------------------------------------------------------------
(* extractFeatureValues: the POS-neighbour features                        *)

MaxPosSentLen == 16  \* tokens in a sentence
MaxMarked     == 2   \* tokens of the sentence tagged NN, the others DT

\* _options['useBigramFeatures']
useBigramFeatures == TRUE

\* coarsen(pos), on the tags of the sentences below and the special cases
coarsen(pos) ==
    CASE pos = "TO"   -> "I"
      [] pos = "NNP"  -> "^"
      [] pos = "NNPS" -> "^"
      [] pos = "CC"   -> "&"
      [] pos = "CD"   -> "#"
      [] pos = "RP"   -> "T"
      [] pos = "NN"   -> "N"
      [] pos = "DT"   -> "D"

\* for cpos in 'VN^ITPJRDM#&'
NeighborCPOS == <<"V", "N", "^", "I", "T", "P", "J", "R", "D", "M", "#", "&">>

\* the unordered pairs {cpos, cposj} that are looked at
NeighborPairs ==
    {{"V"}, {"V", "N"}, {"V", "R"}, {"V", "T"}, {"V", "M"}, {"V", "P"},
     {"J", "N"}, {"N"}, {"D", "N"}, {"D", "^"}, {"N", "^"}, {"^"},
     {"R", "J"}, {"N", "&"}, {"^", "&"}, {"V", "I"}, {"I", "N"}}

PyAbs(n) == IF n < 0 THEN -n ELSE n

\* lines 382-387 and 396-401: the bucket of the distance k-j; Python's //
\* rounds down
BinDist(bindist) ==
    IF PyAbs(bindist) > 5
    THEN IF PyAbs(bindist) < 10
         THEN (IF bindist > 0 THEN 6 ELSE -6)
         ELSE (bindist \div 10) * 10
    ELSE bindist

\* the feature names (tuples) set for one neighbour at position k (from 0);
\* arrow is '<-{}' or '{}->', side is '<' or '>'
NeighborFeatures(sentence, j, cpos, k, arrow, side) ==
    LET bindist == BinDist(k - j)
        cposj   == coarsen(sentence[j + 1].pos)
    IN  {[cpos |-> cpos, fmt |-> arrow, bindist |-> bindist, last |-> cposj],
         [cpos |-> cpos, side |-> side, stem |-> sentence[k + 1].stem, last |-> cposj]}
        \cup (IF useBigramFeatures /\ PyAbs(bindist) < 6
              THEN {[cpos |-> cpos, fmt |-> arrow, bindist |-> bindist,
                     last |-> sentence[j + 1].stem],
                    [cpos |-> cpos, side |-> side, stem |-> sentence[k + 1].stem,
                     last |-> sentence[j + 1].stem]}
              ELSE {})

\* lines 372-406 of extractFeatureValues: the names set in featureMap
POSNeighborFeatures(sentence, j) ==
    LET sentpos == [k \in 1..Len(sentence) |-> coarsen(sentence[k].pos)]
        cposj   == coarsen(sentence[j + 1].pos)
        \* positions (from 0) left and right of j that carry cpos
        lefts(cpos)  == {k \in 0..(j - 1) : sentpos[k + 1] = cpos}
        rights(cpos) == {k \in (j + 1)..(Len(sentence) - 1) : sentpos[k + 1] = cpos}
        \* sentpos.rindex(cpos,0,j) and sentpos.index(cpos,j+1)
        rindex(cpos) == CHOOSE k \in lefts(cpos) : \A o \in lefts(cpos) : o <= k
        index(cpos)  == CHOOSE k \in rights(cpos) : \A o \in rights(cpos) : k <= o
    IN  UNION {
          IF {NeighborCPOS[c], cposj} \notin NeighborPairs THEN {}
          ELSE (IF lefts(NeighborCPOS[c]) # {}
                THEN NeighborFeatures(sentence, j, NeighborCPOS[c],
                                      rindex(NeighborCPOS[c]), "<-{}", "<")
                ELSE {})
               \cup
               (IF rights(NeighborCPOS[c]) # {}
                THEN NeighborFeatures(sentence, j, NeighborCPOS[c],
                                      index(NeighborCPOS[c]), "{}->", ">")
                ELSE {})
          : c \in 1..Len(NeighborCPOS)}

----------------------------------------------------------------------------
(* Operations: the POS-neighbour features of one token.                    *)

PosToken(pos) == [stem |-> IF pos = "NN" THEN "cat" ELSE "the", pos |-> pos]


\* extractFeatureValues(sent, j): the POS-neighbour part
ExtractPOSNeighbors ==
    /\ pq.op = "none"
    /\ pq' = [op |-> "posneighbors", result |-> POSNeighborFeatures(psent, pj)]
    /\ UNCHANGED <<psent, pj, trieVars, indexerVars, featureVars, senseVars>>

POSNext == ExtractPOSNeighbors

----------------------------------------------------------------------------
(* Claims about the indexer.                                               *)

\* string-by-index and index-by-string are inverse of each other
InverseMaps(x) ==
    /\ DOMAIN x.s2i = {x.i2s[j] : j \in 1..Len(x.i2s)}
    /\ \A j \in 1..Len(x.i2s) : x.s2i[x.i2s[j]] = j - 1

\* freeze() has never completed: it is what creates the cached length
NeverFrozen(x) == ~x.len.exists

C3_Step ==
    /\ (NeverFrozen(ix) /\ sret'.op \in {"add", "setdefault"}) =>
          LET s == sret'.arg.s
          IN  /\ sret'.raised = "none"
              /\ IF s \notin DOMAIN ix.s2i
                 THEN /\ ix'.i2s = Append(ix.i2s, s)
                      /\ DOMAIN ix'.s2i = DOMAIN ix.s2i \cup {s}
                      /\ ix'.s2i[s] = Len(ix.i2s)
                 ELSE /\ ix'.i2s = ix.i2s
                      /\ ix'.s2i = ix.s2i
              /\ \A t \in DOMAIN ix.s2i : ix'.s2i[t] = ix.s2i[t]
              /\ sret'.op = "setdefault" =>
                    sret'.result = PyInt(IF s \in DOMAIN ix.s2i
                                         THEN ix.s2i[s] ELSE Len(ix.i2s))
              /\ InverseMaps(ix')
    /\ (NeverFrozen(ix) /\ sret'.op \in {"setcount", "unfreeze"}) =>
          /\ ix'.i2s = ix.i2s
          /\ ix'.s2i = ix.s2i

\* C3: while the indexer has never been frozen, add/setdefault of an unseen
\* symbol gives it the index equal to the current number of entries, of a
\* registered symbol returns its index and adds nothing, no index of an
\* existing symbol changes, and the two maps stay inverse of each other.
C3_SequentialIndices == [][C3_Step]_vars

\* three symbols are registered, nothing was frozen, and setdefault of the
\* first of them has returned index 0
C3_Witness ==
    /\ NeverFrozen(ix)
    /\ Len(ix.i2s) = 3
    /\ sret.op = "setdefault"
    /\ sret.raised = "none"
    /\ sret.result = PyInt(0)
    /\ ix.i2s[1] = sret.arg.s

C4_Step ==
    (sret'.op = "freeze" /\ sret'.raised = "none" /\ ix.cutoff # PyNone) =>
        LET C == ix.cutoff.n
            survivors == {s \in DOMAIN ix.s2i : CounterGet(tally, ix.s2i[s]) >= C}
        IN  /\ ix'.frozen
            /\ DOMAIN ix'.s2i = survivors
            /\ Len(ix'.i2s) = Cardinality(survivors)
            /\ \A s \in survivors :
                  /\ ix'.s2i[s] \in 0..(Cardinality(survivors) - 1)
                  /\ ix'.i2s[ix'.s2i[s] + 1] = s
            /\ \A a \in survivors, b \in survivors :
                  ix.s2i[a] < ix.s2i[b] => ix'.s2i[a] < ix'.s2i[b]
            /\ \A s \in DOMAIN ix.s2i \ survivors :
                  /\ ~Indexer_contains(ix', s)
                  /\ Indexer_getitem(ix', s).raised = "KeyError"

\* C4: freeze() on an indexer with cutoff C keeps exactly the symbols whose
\* count (the add/setdefault calls, or the count forced by setcount plus the
\* later calls) is at least C, re-indexes them 0..N-1 in their insertion
\* order with the two maps in agreement, and the others are no longer found.
C4_FreezeCutoff == [][C4_Step]_vars

\* freeze() with a cutoff has dropped the first of three symbols and
\* re-indexed the other two
C4_Witness ==
    /\ sret.op = "freeze"
    /\ sret.raised = "none"
    /\ ix.cutoff # PyNone
    /\ Len(sret.arg) = 3
    /\ ix.i2s = <<sret.arg[2], sret.arg[3]>>
    /\ ix.s2i[sret.arg[2]] = 0

C5_Step ==
    (ix.frozen /\ sret'.op \in {"add", "setdefault"}) =>
        LET s == sret'.arg.s
        IN  /\ ix' = ix
            /\ IF s \notin DOMAIN ix.s2i
               THEN sret'.raised = "ValueError"
               ELSE /\ sret'.raised = "none"
                    /\ sret'.op = "setdefault" =>
                          sret'.result = PyInt(ix.s2i[s])

\* C5: on a frozen indexer add/setdefault of an unregistered symbol raises
\* ValueError and of a registered symbol succeeds; either way the indexer is
\* left as it was.
C5_FrozenRejects == [][C5_Step]_vars

\* add of an unregistered symbol has just been rejected by a frozen,
\* non-empty indexer
C5_Witness ==
    /\ ix.frozen
    /\ Len(ix.i2s) >= 1
    /\ sret.op = "add"
    /\ sret.raised = "ValueError"
    /\ sret.arg.s \notin DOMAIN ix.s2i

\* freeze() has completed and unfreeze() has cleared the flag since
Reopened(x) == ~NeverFrozen(x) /\ ~x.frozen

C13_Step ==
    /\ sret'.op = "unfreeze" =>
          /\ sret'.raised = "none"
          /\ ix' = [ix EXCEPT !.frozen = FALSE]
    /\ (Reopened(ix) /\ sret'.op = "add") =>
          LET s == sret'.arg.s
          IN  /\ sret'.raised = "none"
              /\ IF s \notin DOMAIN ix.s2i
                 THEN /\ ix'.i2s = Append(ix.i2s, s)
                      /\ ix'.s2i = (s :> Len(ix.i2s)) @@ ix.s2i
                 ELSE /\ ix'.i2s = ix.i2s
                      /\ ix'.s2i = ix.s2i

\* C13: unfreeze() changes the frozen flag and nothing else; on a table that
\* was frozen and then unfrozen, with or without a cutoff, add of an unseen
\* symbol succeeds and gives it the next sequential index, and add of a
\* registered symbol succeeds.
C13_Reopen == [][C13_Step]_vars

----------------------------------------------------------------------------
(* Claims about the feature map.                                           *)

\* C6: after any sequence of set calls, a feature set to the default value
\* has no entry in the override map, and the iteration yields the default
\* for it.
C6_Sparsity ==
    (/\ sret.op = "set"
     /\ sret.raised = "none"
     /\ sret.arg.v = fv.default
     /\ sret.arg.k \in DOMAIN ix.s2i) =>
        /\ ix.s2i[sret.arg.k] \notin DOMAIN fv.map
        /\ <<ix.s2i[sret.arg.k], fv.default>> \in FeatureMap_items(fv)

C7_Step ==
    (ix.frozen /\ sret'.op = "set") =>
        LET k == sret'.arg.k
            v == sret'.arg.v
        IN  /\ sret'.raised = "none"
            /\ ix' = ix
            /\ IF k \notin DOMAIN ix.s2i
               THEN fv' = fv
               ELSE /\ fv'.indices = fv.indices \cup {ix.s2i[k]}
                    /\ \A i \in DOMAIN fv.map :
                          i # ix.s2i[k] =>
                              i \in DOMAIN fv'.map /\ fv'.map[i] = fv.map[i]
                    /\ DOMAIN fv'.map \subseteq DOMAIN fv.map \cup {ix.s2i[k]}

\* C7: with the indexer frozen, set(name, value) of a name that is not
\* registered does not raise and leaves the feature map and the indexer as
\* they were; of a registered name it activates that name's existing index.
C7_FrozenClosure == [][C7_Step]_vars

\* a name that is not registered has just been set on a feature map with
\* active features, over a frozen indexer holding two names
C7_Witness ==
    /\ ix.frozen
    /\ Len(ix.i2s) = 2
    /\ fv.indices # {}
    /\ sret.op = "set"
    /\ sret.raised = "none"
    /\ sret.arg.k \notin DOMAIN ix.s2i

----------------------------------------------------------------------------
(* Claims about the most-frequent-sense baseline.                          *)

SentStems == [k \in 1..Len(sent) |-> sent[k].stem]
SentCoarsePOS == [k \in 1..Len(sent) |-> PosFirstChar(sent[k].pos)]

\* the phrases of the two files, and the POS map the files give a phrase
LexPhrases == {l.phrase : l \in nounFile \cup verbFile}
LexMap(phrase) ==
    [pos \in {"N" : l \in {l \in nounFile : l.phrase = phrase}}
             \cup {"V" : l \in {l \in verbFile : l.phrase = phrase}} |->
        IF pos = "N"
        THEN (CHOOSE l \in nounFile : l.phrase = phrase).sense
        ELSE (CHOOSE l \in verbFile : l.phrase = phrase).sense]

\* the query as the claim words it, over the files' content
RECURSIVE SenseExpected(_, _)
SenseExpected(stems, poses) ==
    LET cands == {p \in LexPhrases : IsPrefix(p, stems)}
    IN  IF cands = {} THEN PyNone
        ELSE LET P == CHOOSE p \in cands : \A o \in cands : Len(o) <= Len(p)
                 m == LexMap(P)
             IN  IF poses[1] \in DOMAIN m THEN PyPair(P, m[poses[1]])
                 ELSE IF poses[Len(poses)] \in DOMAIN m
                 THEN PyPair(P, m[poses[Len(poses)]])
                 ELSE IF Len(P) - 1 = 0 THEN PyNone
                 ELSE SenseExpected(SubSeq(stems, 1, Len(P) - 1),
                                    SubSeq(poses, 1, Len(P) - 1))

\* the greedy left-to-right segmentation, from token i (1-based)
RECURSIVE SegmentExpected(_)
SegmentExpected(i) ==
    IF i > Len(sent) THEN <<>>
    ELSE LET r == SenseExpected(SubSeq(SentStems, i, Len(sent)),
                                SubSeq(SentCoarsePOS, i, Len(sent)))
         IN  IF r = PyNone
             THEN <<LabelO>> \o SegmentExpected(i + 1)
             ELSE <<LabelB(r.val)>>
                  \o [w \in 1..(Len(r.prefix) - 1) |-> LabelI(r.val)]
                  \o SegmentExpected(i + Len(r.prefix))

\* C8: extractFirstSensePredictedLabels returns one label per token, each O
\* or a B-/I- sense; an I- label follows a B- or I- label of the same sense;
\* a matched span of length L gives one B- and L-1 I- labels and the scan
\* resumes after the span.
C8_Segmentation ==
    sq.op = "extract" =>
        LET res == sq.result
        IN  /\ Len(res) = Len(sent)
            /\ \A k \in 1..Len(res) :
                  \/ res[k] = LabelO
                  \/ \E sense \in NounSenses \cup VerbSenses :
                        res[k] \in {LabelB(sense), LabelI(sense)}
            /\ \A k \in 1..Len(res) :
                  res[k].bio = "I" =>
                      /\ k > 1
                      /\ res[k - 1].bio \in {"B", "I"}
                      /\ res[k - 1].sense = res[k].sense
            /\ res = SegmentExpected(1)

\* a three-token sentence was labelled B- I- B-: a span of two tokens, and
\* the scan resumed on the third
C8_Witness ==
    /\ sq.op = "extract"
    /\ Len(sent) = 3
    /\ sq.result[1].bio = "B"
    /\ sq.result[2].bio = "I"
    /\ sq.result[3].bio = "B"

----------------------------------------------------------------------------
(* Claims about the POS-neighbour features.                                *)

\* the bucket of a signed distance as the claim states it: d itself up to
\* 5, 6 with the sign of d from 6 to 9, and from 10 on d rounded toward
\* zero to a multiple of 10
ClaimedBucket(d) ==
    IF PyAbs(d) <= 5 THEN d
    ELSE IF PyAbs(d) <= 9 THEN (IF d > 0 THEN 6 ELSE -6)
    ELSE IF d > 0 THEN (d \div 10) * 10
    ELSE -((PyAbs(d) \div 10) * 10)

\* the signed distances from j to the nearest token with coarse POS cpos
LeftDistances(cpos) ==
    LET ks == {k \in 0..(pj - 1) : coarsen(psent[k + 1].pos) = cpos}
    IN  {k - pj : k \in {k \in ks : \A o \in ks : o <= k}}
RightDistances(cpos) ==
    LET ks == {k \in (pj + 1)..(Len(psent) - 1) : coarsen(psent[k + 1].pos) = cpos}
    IN  {k - pj : k \in {k \in ks : \A o \in ks : k <= o}}

\* C10: the bucket emitted for the signed distance d to the nearest
\* paired-tag token is d for |d| <= 5, +6 or -6 for 6 <= |d| <= 9, and d
\* rounded toward zero to a multiple of 10 for |d| >= 10.
C10_DistanceBuckets ==
    pq.op = "posneighbors" =>
        \A c \in 1..Len(NeighborCPOS) :
            LET cpos  == NeighborCPOS[c]
                cposj == coarsen(psent[pj + 1].pos)
            IN  {cpos, cposj} \in NeighborPairs =>
                  /\ \A d \in LeftDistances(cpos) :
                        [cpos |-> cpos, fmt |-> "<-{}",
                         bindist |-> ClaimedBucket(d), last |-> cposj] \in pq.result
                  /\ \A d \in RightDistances(cpos) :
                        [cpos |-> cpos, fmt |-> "{}->",
                         bindist |-> ClaimedBucket(d), last |-> cposj] \in pq.result

----------------------------------------------------------------------------
(* Claims about lookups in the indexer.                                    *)

\* the key of the last lookup names an entry of the table: an index in
\* 0..N-1 or a registered string
LookupHit ==
    IF sret.arg.k.tag = "int"
    THEN sret.arg.k.n \in 0..(Len(ix.i2s) - 1)
    ELSE sret.arg.k.s \in DOMAIN ix.s2i

\* the entry the key of the last lookup names
LookupEntry ==
    IF sret.arg.k.tag = "int"
    THEN PyStr(ix.i2s[sret.arg.k.n + 1])
    ELSE PyInt(ix.s2i[sret.arg.k.s])

\* C11: get(k, default) never fails: for an integer k outside 0..N-1
\* (negative or >= N) and for an unregistered string it returns the default,
\* for a valid index or a registered string it returns the stored entry;
\* indexing with [] returns the stored entry on a hit and fails on a miss.
C11_GetNeverFails ==
    /\ sret.op = "get" =>
          /\ sret.raised = "none"
          /\ sret.result = IF LookupHit THEN LookupEntry ELSE sret.arg.default
    /\ sret.op = "getitem" =>
          IF LookupHit
          THEN sret.raised = "none" /\ sret.result = LookupEntry
          ELSE sret.raised # "none"

----------------------------------------------------------------------------
(* Specifications: one per component, the other components at rest.        *)

Components == {"trie", "indexer", "featuremap", "sense", "pos"}

\* The state after construction.  The components in 'active' start from any
\* of their bounded inputs, the others are at rest:
\*  - the Trie starts empty;
\*  - the indexer is built with any cutoff, the feature map with any default;
\*  - the sense data are loaded once, from any two files within the bounds,
\*    and the sentence is any sentence within the bounds;
\*  - the POS-neighbour features are extracted for any position of any
\*    sentence of DT tokens with at most MaxMarked NN tokens.
Start(active) ==
    /\ trie = NewTrie
    /\ stored = EmptyFn
    /\ tq = NoCall
    /\ \E cutoff \in IF {"indexer", "featuremap"} \cap active # {}
                     THEN Cutoffs ELSE {PyNone} :
          ix = NewIndexer(cutoff)
    /\ tally = EmptyFn
    /\ sret = NoCall
    /\ \E default \in IF "featuremap" \in active THEN FeatVals ELSE {1} :
          fv = NewFeatureMap(default)
    /\ nounFile \in IF "sense" \in active THEN SenseFiles(NounSenses) ELSE {{}}
    /\ verbFile \in IF "sense" \in active THEN SenseFiles(VerbSenses) ELSE {{}}
    /\ Cardinality(nounFile) + Cardinality(verbFile) <= MaxLexLines
    /\ senseTrie = loadSenseDataOriginalFormat(nounFile, verbFile)
    /\ sent \in IF "sense" \in active THEN Sentences ELSE {<<>>}
    /\ sq = NoCall
    /\ \E n \in IF "pos" \in active THEN 1..MaxPosSentLen ELSE {1} :
         \E marked \in SUBSET (1..n) :
            /\ Cardinality(marked) <= (IF "pos" \in active THEN MaxMarked ELSE 0)
            /\ psent = [k \in 1..n |->
                          IF k \in marked THEN PosToken("NN") ELSE PosToken("DT")]
    /\ pj \in 0..(Len(psent) - 1)
    /\ pq = NoCall

SpecTrie == Start({"trie"}) /\ [][TrieNext]_vars

SpecIndexer == Start({"indexer"}) /\ [][IndexerNext]_vars

SpecFeatureMap == Start({"featuremap"}) /\ [][FeatureMapNext]_vars

SpecSense == Start({"sense"}) /\ [][SenseNext]_vars

SpecPOS == Start({"pos"}) /\ [][POSNext]_vars

SpecLookup == Start({"indexer"}) /\ [][LookupNext]_vars

Init == Start(Components)

Next ==
    \/ TrieNext
    \/ IndexerNext
    \/ LookupNext
    \/ FeatureMapNext
    \/ SenseNext
    \/ POSNext

Spec == Init /\ [][Next]_vars

====
